---- MODULE Spec2Model ----
(***************************************************************************)
(* Model of the load balancer's request-dispatch core:                     *)
(*   - internal/circuitbreaker  (CanAttempt, RecordSuccess, RecordFailure) *)
(*   - internal/health          (health map, probe writes, IsHealthy)      *)
(*   - cmd/loadbalancer         (selectBackend, createProxy callbacks)     *)
(* Time is counted in ticks of 30 seconds.                                  *)
(***************************************************************************)
EXTENDS Integers, Naturals, FiniteSets, Sequences, TLC

VARIABLES
    backendCount,     \* len(backends), fixed at startup
    failureThreshold, \* CircuitBreaker.failureThreshold (same for every breaker)
    timeout,          \* CircuitBreaker.timeout, in ticks
    replies,          \* replies[b]: outcomes backend b can produce for a forwarded request
    numRequests,      \* how many requests arrive in all
    cursor0,          \* the cursor value before the first request
    counter,          \* the shared rotation cursor (uint64, modelled modulo CounterMod)
    healthStatus,     \* Checker.healthStatus
    state,            \* CircuitBreaker.state, per backend
    failures,         \* CircuitBreaker.failures, per backend
    lastFailureTime,  \* CircuitBreaker.lastFailureTime, per backend
    now,              \* the wall clock
    pc,               \* position of each request-handling goroutine
    next,             \* selectBackend's local `next`
    i,                \* selectBackend's loop variable
    ret,              \* the index selectBackend returned
    fallback,         \* TRUE when the return came from the fall-through at the end of the scan
    elig,             \* history: backends eligible during the whole call so far
    unh,              \* history: backends unhealthy during the whole call so far
    blocked,          \* history: backends whose CanAttempt was false during the whole call so far
    lastCall,         \* history: per breaker, the latest operation and the state it found
    streak,           \* history: per breaker, RecordFailure calls since the last RecordSuccess
    logged,           \* history: per breaker, what its latest operation wrote to the log
    counts,           \* history: how many times selectBackend returned each backend
    probePc,          \* position of each backend's probe task (the goroutine of StartChecking)
    tickPending,      \* ticker.C of each probe task holds a tick
    stopClosed,       \* the stop channel of each probe task has been closed
    isHealthy,        \* the probe task's local isHealthy
    lastReply,        \* history: what the task's latest liveness call came back with
    healthMutex,      \* Checker.healthMutex: the probe task holding it for writing, -1 when none does
    isHealthyCall,    \* per handler, its IsHealthy call: position, index asked for, value returned
    probeTime,        \* per probe task, time since its ticker last fired and since its liveness call began
    configFile,       \* config.yaml as main() finds it
    cfg,              \* main's cfg: <<>> for nil, <<c>> for a pointer to the Config c
    mainPc,           \* position of main()
    mu,               \* CircuitBreaker.mu, per backend: the handler holding it, 0 when unlocked
    cbOp,             \* per handler, the breaker operation it is executing step by step
    cbPc,             \* per handler, its position in that operation
    seen              \* per handler, the breaker's fields as the operation read them

vars == <<backendCount, failureThreshold, timeout, replies, numRequests, cursor0,
          counter, healthStatus, state, failures, lastFailureTime, now, pc, next, i,
          ret, fallback, elig, unh, blocked, lastCall, streak, logged, counts,
          probePc, tickPending, stopClosed, isHealthy, lastReply, healthMutex, isHealthyCall,
          probeTime,
          configFile, cfg, mainPc, mu, cbOp, cbPc, seen>>

config == <<backendCount, failureThreshold, timeout, replies, numRequests, cursor0,
            configFile, cfg, mainPc>>
history == <<lastCall, streak, logged>>
breakerVars == <<state, failures, lastFailureTime>>
callVars == <<pc, next, i, ret, fallback>>
probeVars == <<probePc, tickPending, stopClosed, isHealthy, lastReply, healthMutex,
               isHealthyCall, probeTime>>
lockVars == <<mu, cbOp, cbPc, seen>>

----------------------------------------------------------------------------
(* Bounds of the model *)

MaxBackends == 2      \* backendCount ranges over 1..MaxBackends
MaxHandlers == 2      \* concurrent request-handling goroutines
MaxCalls == 3         \* requests in one behaviour of the full system
MaxTime == 3          \* the clock stops advancing here
MaxThreshold == 2     \* failureThreshold ranges over 1..MaxThreshold
MaxScanBackends == 3  \* backendCount of the specifications about selection alone
MaxRoundRobin == 6    \* requests of the round-robin specification
MaxOutage == 6        \* requests of the total-outage specification
MaxConcurrent == 3    \* requests of the specification of concurrent requests
MaxConfigBackends == 2  \* backends listed in a configuration file
MaxFailures == 4      \* failures stop being recorded at this failure count
CounterBits == 9      \* width of the modelled cursor
CursorSpan == 4       \* starting cursors: this many after 0 and before the wrap-around

(* Program constants *)

MainThreshold == 3    \* circuitbreaker.New(backend.URL, 3, 30*time.Second)
MainTimeout == 1      \* 30*time.Second, in ticks
TestThreshold == 5    \* circuitbreaker.New(fmt.Sprintf(":%d", i), 5, 10*time.Second)
TestTimeout == 1      \* 10*time.Second, rounded up to a tick
CircuitTestBackends == 2    \* TestCircuitBreakerOpens: the good and the bad backend
CircuitTestThreshold == 3   \* circuitbreaker.New(badBackend.URL, 3, 10*time.Second)
CircuitTestRequests == 20   \* for range 20
FailoverRequests == 300     \* TestHealthCheckFailover: numRequests := 300
TickerPeriod == 5     \* time.NewTicker(10 * time.Second), in the probe tasks' unit of 2 s
ProbeTimeout == 1     \* http.Client{Timeout: 2 * time.Second}, in that unit
ZeroTime == -1        \* the zero time.Time of a breaker that never failed

CounterMod == 2 ^ CounterBits

\* The cursor values a run starts from: the first ones, and the last ones
\* before the counter wraps around to 0
Cursors ==
    {c \in 0 .. (CounterMod - 1) : c < CursorSpan \/ c >= CounterMod - CursorSpan}

Handlers == 1 .. MaxHandlers
Backends == 0 .. (backendCount - 1)

stateClosed == "Closed"
stateOpen == "Open"
stateHalfOpen == "HalfOpen"
CircuitState == {stateClosed, stateOpen, stateHalfOpen}

\* What a forwarded request can come back with: a response carrying a status,
\* or a transport error (connection refused, timeout, ...).
Outcomes == {"status200", "status500", "transportError"}

----------------------------------------------------------------------------
(* internal/config *)

\* Values a configuration file can give: ports around the limits of the
\* valid range, URLs (empty, usable, and one url.Parse rejects), weights
ConfigPorts == {-1, 0, 1, 8080, 65535, 65536}
ConfigURLs == {"", "http://backend", "%zz"}
ConfigWeights == {-1, 0, 1}

BackendConfig == [URL : ConfigURLs, Weight : ConfigWeights]

BackendLists ==
    UNION {[1 .. n -> BackendConfig] : n \in 0 .. MaxConfigBackends}

\* config.yaml: missing or unreadable, not YAML of the Config shape, or
\* YAML that unmarshals to the given port and backends
ConfigFiles ==
    [kind : {"unreadable", "malformed"}, port : {0}, backends : {<<>>}]
        \cup [kind : {"yaml"}, port : ConfigPorts, backends : BackendLists]

\* The Config a file unmarshals to
Unmarshal(file) == [Port |-> file.port, Backends |-> file.backends]

\* The check of one backend with a strict comparison of the weight
CheckBackendStrict(b) ==
    IF b.URL = "" THEN "is empty"
    ELSE IF b.Weight < 0 THEN "has a negative weight"
    ELSE "nil"

\* The body of Validate's loop for one backend
CheckBackend(b) ==
    IF b.URL = "" THEN "is empty"
    ELSE IF b.Weight <= 0 THEN "has a negative weight"
    ELSE "nil"

\* for i, backendServer := range cfg.Backends, from index k on
RECURSIVE ValidateFrom(_, _)
ValidateFrom(c, k) ==
    IF k > Len(c.Backends) THEN "nil"
    ELSE IF CheckBackend(c.Backends[k]) # "nil" THEN CheckBackend(c.Backends[k])
    ELSE ValidateFrom(c, k + 1)

\* Validate: the error it returns, "nil" for none
Validate(c) ==
    LET isValidServerPort == c.Port >= 1 /\ c.Port <= 65535
        hasAtLeastOneBackendServer == Len(c.Backends) > 0
    IN  IF ~isValidServerPort THEN "invalid port"
        ELSE IF ~hasAtLeastOneBackendServer THEN "needs to have at least one backend server"
        ELSE ValidateFrom(c, 1)

\* Load: the pointer and the error it returns
Load(file) ==
    IF file.kind = "unreadable" THEN [cfg |-> <<>>, err |-> "failed to read config"]
    ELSE IF file.kind = "malformed"
    THEN [cfg |-> <<>>, err |-> "failed to unmarshal config file"]
    ELSE IF Validate(Unmarshal(file)) # "nil"
    THEN [cfg |-> <<>>, err |-> "config validation failed"]
    ELSE [cfg |-> <<Unmarshal(file)>>, err |-> "nil"]

----------------------------------------------------------------------------
(* internal/circuitbreaker *)

\* WindowElapsedAt with >= for >
WindowElapsedAtInclusive(b, t) ==
    IF lastFailureTime[b] = ZeroTime THEN TRUE
    ELSE t - lastFailureTime[b] >= timeout

\* time.Since(cb.lastFailureTime) > cb.timeout, for a clock reading t
WindowElapsedAt(b, t) ==
    IF lastFailureTime[b] = ZeroTime THEN TRUE
    ELSE t - lastFailureTime[b] > timeout

WindowElapsed(b) == WindowElapsedAt(b, now)

\* CanAttemptResult of a breaker that admits only the call entering HalfOpen
CanAttemptResultSingleProbe(b) ==
    CASE state[b] = stateClosed -> TRUE
      [] state[b] = stateOpen -> WindowElapsed(b)
      [] state[b] = stateHalfOpen -> FALSE
      [] OTHER -> TRUE

\* The value CanAttempt returns in the current state
CanAttemptResult(b) ==
    CASE state[b] = stateClosed -> TRUE
      [] state[b] = stateOpen -> WindowElapsed(b)
      [] state[b] = stateHalfOpen -> TRUE
      [] OTHER -> TRUE

\* The state CanAttempt leaves behind
\* CanAttempt's log.Printf: "Circuit HALF-OPEN ..." in the branch that sets
\* stateHalfOpen
CanAttemptLog(st, elapsed) ==
    IF st = stateOpen /\ elapsed THEN "HALF-OPEN" ELSE "none"

\* RecordSuccess's log.Printf: "Circuit CLOSED ..." if cb.state == stateHalfOpen
RecordSuccessLog(st) == IF st = stateHalfOpen THEN "CLOSED" ELSE "none"

\* RecordFailure's log.Printf: "Circuit OPENED ..." in both branches that set
\* stateOpen; count is cb.failures before the increment
RecordFailureLog(st, count) ==
    IF st = stateHalfOpen \/ count + 1 >= failureThreshold THEN "OPENED" ELSE "none"

\* CanAttemptState entering HalfOpen from Open whether or not the window
\* has elapsed
CanAttemptStateEager(b) ==
    IF state[b] = stateOpen THEN stateHalfOpen ELSE state[b]

CanAttemptState(b) ==
    IF state[b] = stateOpen /\ WindowElapsed(b) THEN stateHalfOpen ELSE state[b]

CanAttempt(b) ==
    /\ state' = [state EXCEPT ![b] = CanAttemptState(b)]
    /\ UNCHANGED <<failures, lastFailureTime>>
    /\ lastCall' = [lastCall EXCEPT ![b] = [op |-> "CanAttempt", from |-> state[b]]]
    /\ UNCHANGED streak
    /\ logged' = [logged EXCEPT ![b] = CanAttemptLog(state[b], WindowElapsed(b))]

\* RecordSuccess closing the breaker without zeroing the failure count
RecordSuccessNoReset(b) ==
    /\ state' = [state EXCEPT ![b] = stateClosed]
    /\ UNCHANGED <<failures, lastFailureTime>>
    /\ lastCall' = [lastCall EXCEPT ![b] = [op |-> "RecordSuccess", from |-> state[b]]]
    /\ logged' = [logged EXCEPT ![b] = RecordSuccessLog(state[b])]
    /\ streak' = [streak EXCEPT ![b] = 0]

RecordSuccess(b) ==
    /\ failures' = [failures EXCEPT ![b] = 0]
    /\ state' = [state EXCEPT ![b] = stateClosed]
    /\ UNCHANGED lastFailureTime
    /\ lastCall' = [lastCall EXCEPT ![b] = [op |-> "RecordSuccess", from |-> state[b]]]
    /\ logged' = [logged EXCEPT ![b] = RecordSuccessLog(state[b])]
    /\ streak' = [streak EXCEPT ![b] = 0]

\* RecordFailureState with a strict comparison against the threshold
RecordFailureStateStrict(b) ==
    IF state[b] = stateHalfOpen THEN stateOpen
    ELSE IF failures[b] + 1 > failureThreshold THEN stateOpen
    ELSE state[b]

RecordFailureState(b) ==
    IF state[b] = stateHalfOpen THEN stateOpen
    ELSE IF failures[b] + 1 >= failureThreshold THEN stateOpen
    ELSE state[b]

\* RecordFailure stamping the time only when it opens a Closed breaker
RecordFailureNoRestamp(b) ==
    /\ failures' = [failures EXCEPT ![b] = failures[b] + 1]
    /\ lastFailureTime' = [lastFailureTime EXCEPT
                             ![b] = IF state[b] = stateClosed THEN now ELSE @]
    /\ state' = [state EXCEPT ![b] = RecordFailureState(b)]
    /\ lastCall' = [lastCall EXCEPT ![b] = [op |-> "RecordFailure", from |-> state[b]]]
    /\ logged' = [logged EXCEPT ![b] = RecordFailureLog(state[b], failures[b])]
    /\ streak' = [streak EXCEPT ![b] = streak[b] + 1]

RecordFailure(b) ==
    /\ failures' = [failures EXCEPT ![b] = failures[b] + 1]
    /\ lastFailureTime' = [lastFailureTime EXCEPT ![b] = now]
    /\ state' = [state EXCEPT ![b] = RecordFailureState(b)]
    /\ lastCall' = [lastCall EXCEPT ![b] = [op |-> "RecordFailure", from |-> state[b]]]
    /\ logged' = [logged EXCEPT ![b] = RecordFailureLog(state[b], failures[b])]
    /\ streak' = [streak EXCEPT ![b] = streak[b] + 1]

----------------------------------------------------------------------------
(* internal/health *)

\* The health map NewChecker builds: every backend healthy
NewChecker(n) == [b \in 0 .. (n - 1) |-> TRUE]

\* The health map after SetHealthy(idx, healthy)
SetHealthy(h, idx, healthy) == [h EXCEPT ![idx] = healthy]

IsHealthy(b) == healthStatus[b]

----------------------------------------------------------------------------
(* History kept for the properties: which backends stayed eligible, stayed *)
(* unhealthy, or stayed closed to attempts, from the start of a            *)
(* selectBackend call until its return.                                    *)

Passable(b) ==
    \/ state[b] # stateOpen
    \/ lastFailureTime[b] = ZeroTime
    \/ now - lastFailureTime[b] > timeout

Eligible(b) == healthStatus[b] /\ Passable(b)

InCall(p) == p \in {"health", "circuit"}

\* The value of a history set after a step: S filters the backends by the new state
Kept(old, r, S(_)) ==
    IF InCall(pc'[r])
    THEN IF pc[r] = "idle" THEN {b \in Backends : S(b)}
         ELSE {b \in old[r] : S(b)}
    ELSE IF pc'[r] = "idle" THEN {} ELSE {b \in old[r] : pc[r] = "forward" \/ S(b)}

Track ==
    /\ elig' = [r \in Handlers |-> LET S(b) == Eligible(b)' IN Kept(elig, r, S)]
    /\ unh' = [r \in Handlers |-> LET S(b) == ~healthStatus'[b] IN Kept(unh, r, S)]
    /\ blocked' = [r \in Handlers |-> LET S(b) == ~Passable(b)' IN Kept(blocked, r, S)]

----------------------------------------------------------------------------
(* cmd/loadbalancer: selectBackend, one step per atomic operation *)

\* Candidate without the loop variable: every iteration examines the same index
CandidateNoOffset(n, k) == (n % CounterMod) % backendCount

\* idx := int((next + uint64(i)) % uint64(backendCount))
Candidate(n, k) == ((n + k) % CounterMod) % backendCount

RECURSIVE SumOver(_, _)
SumOver(f, S) ==
    IF S = {} THEN 0
    ELSE LET x == CHOOSE y \in S : TRUE IN f[x] + SumOver(f, S \ {x})

\* selectBackend calls started so far
CallsStarted == SumOver(counts, Backends) + Cardinality({r \in Handlers : InCall(pc[r])})

\* Select advancing the cursor by two
SelectDoubleStep(r) ==
    /\ pc[r] = "idle"
    /\ CallsStarted < numRequests
    /\ counter' = (counter + 2) % CounterMod
    /\ next' = [next EXCEPT ![r] = (counter + 2) % CounterMod]
    /\ i' = [i EXCEPT ![r] = 0]
    /\ pc' = [pc EXCEPT ![r] = "health"]
    /\ UNCHANGED <<config, probeVars, lockVars, healthStatus, breakerVars, now, ret, fallback, history, counts>>
    /\ Track

\* Select taking the cursor's value from before the increment
SelectOldValue(r) ==
    /\ pc[r] = "idle"
    /\ CallsStarted < numRequests
    /\ counter' = (counter + 1) % CounterMod
    /\ next' = [next EXCEPT ![r] = counter]
    /\ i' = [i EXCEPT ![r] = 0]
    /\ pc' = [pc EXCEPT ![r] = "health"]
    /\ UNCHANGED <<config, probeVars, lockVars, healthStatus, breakerVars, now, ret, fallback, history, counts>>
    /\ Track

\* next := atomic.AddUint64(&counter, 1)
Select(r) ==
    /\ pc[r] = "idle"
    /\ CallsStarted < numRequests
    /\ counter' = (counter + 1) % CounterMod
    /\ next' = [next EXCEPT ![r] = (counter + 1) % CounterMod]
    /\ i' = [i EXCEPT ![r] = 0]
    /\ pc' = [pc EXCEPT ![r] = "health"]
    /\ UNCHANGED <<config, probeVars, lockVars, healthStatus, breakerVars, now, ret, fallback, history, counts>>
    /\ Track

\* return idx / return int(next % uint64(len(backends)))
Return(r, idx, viaFallback) ==
    /\ ret' = [ret EXCEPT ![r] = idx]
    /\ fallback' = [fallback EXCEPT ![r] = viaFallback]
    /\ pc' = [pc EXCEPT ![r] = "forward"]
    /\ counts' = [counts EXCEPT ![idx] = counts[idx] + 1]
    /\ UNCHANGED <<next, i>>

\* Continue with the fall-through returning the cursor value itself
ContinueNoMod(r) ==
    IF i[r] + 1 < backendCount
    THEN /\ i' = [i EXCEPT ![r] = i[r] + 1]
         /\ pc' = [pc EXCEPT ![r] = "health"]
         /\ UNCHANGED <<next, ret, fallback, counts>>
    ELSE Return(r, next[r], TRUE)

\* Continue with the fall-through returning index 0
ContinueReturnZero(r) ==
    IF i[r] + 1 < backendCount
    THEN /\ i' = [i EXCEPT ![r] = i[r] + 1]
         /\ pc' = [pc EXCEPT ![r] = "health"]
         /\ UNCHANGED <<next, ret, fallback, counts>>
    ELSE Return(r, 0, TRUE)

\* continue: the next loop iteration, or the fall-through after the last one
Continue(r) ==
    IF i[r] + 1 < backendCount
    THEN /\ i' = [i EXCEPT ![r] = i[r] + 1]
         /\ pc' = [pc EXCEPT ![r] = "health"]
         /\ UNCHANGED <<next, ret, fallback, counts>>
    ELSE Return(r, next[r] % backendCount, TRUE)

\* CheckHealth that lets an unhealthy candidate through to the breaker check
CheckHealthNoSkip(r) ==
    /\ pc[r] = "health"
    /\ pc' = [pc EXCEPT ![r] = "circuit"]
    /\ UNCHANGED <<next, i, ret, fallback, counts>>
    /\ UNCHANGED <<config, probeVars, lockVars, counter, healthStatus, breakerVars, now, history>>
    /\ Track

\* if !healthChecker.IsHealthy(idx) { continue }
CheckHealth(r) ==
    /\ pc[r] = "health"
    /\ IF ~IsHealthy(Candidate(next[r], i[r]))
       THEN Continue(r)
       ELSE /\ pc' = [pc EXCEPT ![r] = "circuit"]
            /\ UNCHANGED <<next, i, ret, fallback, counts>>
    /\ UNCHANGED <<config, probeVars, lockVars, counter, healthStatus, breakerVars, now, history>>
    /\ Track

\* if !circuitBreakers[idx].CanAttempt() { continue }; return idx
CheckCircuit(r) ==
    /\ pc[r] = "circuit"
    /\ LET idx == Candidate(next[r], i[r]) IN
         /\ CanAttempt(idx)
         /\ IF ~CanAttemptResult(idx)
            THEN Continue(r)
            ELSE Return(r, idx, FALSE)
    /\ UNCHANGED <<config, probeVars, lockVars, counter, healthStatus, now>>
    /\ Track

----------------------------------------------------------------------------
(* cmd/loadbalancer: createProxy.  The reverse proxy calls ModifyResponse  *)
(* for every response it receives from the backend, whatever its status,   *)
(* and ErrorHandler when the round trip itself fails.                      *)

ModifyResponse(b) == RecordSuccess(b)

ErrorHandler(b) == RecordFailure(b)

ServeHTTP(b, outcome) ==
    IF outcome = "transportError" THEN ErrorHandler(b) ELSE ModifyResponse(b)

\* proxies[backend].ServeHTTP(w, r), then the handler returns
Forward(r) ==
    /\ pc[r] = "forward"
    /\ \E outcome \in replies[ret[r]] : ServeHTTP(ret[r], outcome)
    /\ pc' = [pc EXCEPT ![r] = "idle"]
    /\ next' = [next EXCEPT ![r] = 0]
    /\ i' = [i EXCEPT ![r] = 0]
    /\ ret' = [ret EXCEPT ![r] = 0]
    /\ fallback' = [fallback EXCEPT ![r] = FALSE]
    /\ UNCHANGED <<config, probeVars, lockVars, counter, healthStatus, now, counts>>
    /\ Track

----------------------------------------------------------------------------
(* internal/health: one probe tick of backend b's task, with the result of *)
(* the liveness call chosen by the environment.                            *)

ProbeTick(b) ==
    /\ \E healthy \in BOOLEAN :
         healthStatus' = [healthStatus EXCEPT ![b] = healthy]
    /\ UNCHANGED <<config, probeVars, lockVars, counter, breakerVars, now, callVars, history, counts>>
    /\ Track

----------------------------------------------------------------------------
(* internal/health: the probe task of StartChecking, step by step *)

\* What the liveness call GET <backend>/health can come back with
ProbeReplies == {"status200", "status204", "status500", "timeout", "connectionRefused"}

\* checkHealth: false on an error of client.Get, else resp.StatusCode == 200
checkHealth(reply) ==
    IF reply \in {"timeout", "connectionRefused"} THEN FALSE
    ELSE reply = "status200"

\* Everything the probe tasks leave alone
notProbed == <<config, lockVars, counter, breakerVars, now, callVars, history, counts>>

\* The ticker of backend b's task fires: ticker.C holds one tick at most
TickerFires(b) ==
    /\ probePc[b] # "done"
    /\ ~tickPending[b]
    /\ tickPending' = [tickPending EXCEPT ![b] = TRUE]
    /\ UNCHANGED <<notProbed, probeTime, healthStatus, probePc, stopClosed, isHealthy, lastReply, healthMutex, isHealthyCall>>
    /\ Track

\* select takes case <-ticker.C and calls checkHealth: the liveness call is issued
TakeTick(b) ==
    /\ probePc[b] = "select"
    /\ tickPending[b]
    /\ tickPending' = [tickPending EXCEPT ![b] = FALSE]
    /\ probePc' = [probePc EXCEPT ![b] = "probing"]
    /\ probeTime' = [probeTime EXCEPT ![b].call = 0]
    /\ UNCHANGED <<notProbed, healthStatus, stopClosed, isHealthy, lastReply, healthMutex, isHealthyCall>>
    /\ Track

\* TakeStop leaving only the select, as a break in the stop case would: the
\* loop goes on
TakeStopBreak(b) ==
    /\ probePc[b] = "select"
    /\ stopClosed[b]
    /\ UNCHANGED <<notProbed, probeTime, healthStatus, probePc, tickPending, stopClosed, isHealthy,
                   lastReply, healthMutex, isHealthyCall>>
    /\ Track

\* select takes case <-stopChan: the task logs and returns, its ticker is stopped
TakeStop(b) ==
    /\ probePc[b] = "select"
    /\ stopClosed[b]
    /\ probePc' = [probePc EXCEPT ![b] = "done"]
    /\ UNCHANGED <<notProbed, probeTime, healthStatus, tickPending, stopClosed, isHealthy, lastReply, healthMutex, isHealthyCall>>
    /\ Track

\* isHealthy := checkHealth(backendURL) returns
CheckHealthReturns(b) ==
    /\ probePc[b] = "probing"
    /\ \E reply \in ProbeReplies :
         /\ isHealthy' = [isHealthy EXCEPT ![b] = checkHealth(reply)]
         /\ lastReply' = [lastReply EXCEPT ![b] = reply]
    /\ probePc' = [probePc EXCEPT ![b] = "lock"]
    /\ UNCHANGED <<notProbed, probeTime, healthStatus, tickPending, stopClosed, healthMutex, isHealthyCall>>
    /\ Track

\* An IsHealthy call that is not under way
NoIsHealthy == [pc |-> "idle", idx |-> 0, result |-> FALSE]

\* The handlers holding healthMutex for reading
RLockHolders == {r \in Handlers : isHealthyCall[r].pc = "rlocked"}

\* LockHealth that waits for neither readers nor another writer
LockHealthNoWait(b) ==
    /\ probePc[b] = "lock"
    /\ healthMutex' = b
    /\ probePc' = [probePc EXCEPT ![b] = "locked"]
    /\ UNCHANGED <<notProbed, probeTime, healthStatus, tickPending, stopClosed, isHealthy, lastReply, isHealthyCall>>
    /\ Track

\* hc.healthMutex.Lock()
LockHealth(b) ==
    /\ probePc[b] = "lock"
    /\ healthMutex = -1
    /\ RLockHolders = {}
    /\ healthMutex' = b
    /\ probePc' = [probePc EXCEPT ![b] = "locked"]
    /\ UNCHANGED <<notProbed, probeTime, healthStatus, tickPending, stopClosed, isHealthy, lastReply, isHealthyCall>>
    /\ Track

\* if hc.healthStatus[idx] != isHealthy { ...; hc.healthStatus[idx] = isHealthy }
\* hc.healthMutex.Unlock()
WriteHealth(b) ==
    /\ probePc[b] = "locked"
    /\ healthStatus' = IF healthStatus[b] # isHealthy[b]
                       THEN [healthStatus EXCEPT ![b] = isHealthy[b]]
                       ELSE healthStatus
    /\ probePc' = [probePc EXCEPT ![b] = "select"]
    /\ healthMutex' = -1
    /\ UNCHANGED <<notProbed, probeTime, tickPending, stopClosed, isHealthy, lastReply, isHealthyCall>>
    /\ Track

\* IsHealthy(idx) called by handler r: hc.healthMutex.RLock()
RLockHealth(r, idx) ==
    /\ isHealthyCall[r].pc = "idle"
    /\ healthMutex = -1
    /\ isHealthyCall' = [isHealthyCall EXCEPT ![r] = [pc |-> "rlocked", idx |-> idx, result |-> FALSE]]
    /\ UNCHANGED <<notProbed, probeTime, healthStatus, probePc, tickPending, stopClosed, isHealthy, lastReply,
                   healthMutex>>
    /\ Track

\* return hc.healthStatus[idx], then the deferred hc.healthMutex.RUnlock()
ReturnIsHealthy(r) ==
    /\ isHealthyCall[r].pc = "rlocked"
    /\ isHealthyCall' = [isHealthyCall EXCEPT
                           ![r] = [pc |-> "idle", idx |-> @.idx, result |-> healthStatus[@.idx]]]
    /\ UNCHANGED <<notProbed, probeTime, healthStatus, probePc, tickPending, stopClosed, isHealthy, lastReply,
                   healthMutex>>
    /\ Track

\* Task b has a step to take that needs no waiting: a select with a ready
\* case, the lock, the write, or a liveness call that has reached its timeout
Urgent(b) ==
    \/ probePc[b] = "select" /\ (tickPending[b] \/ stopClosed[b])
    \/ probePc[b] \in {"lock", "locked"}
    \/ probePc[b] = "probing" /\ probeTime[b].call = ProbeTimeout

\* The ticker of task b fires when time advances by one unit
Fires(b) == probePc[b] # "done" /\ probeTime[b].tick + 1 = TickerPeriod

\* Time advances by one unit while every task is waiting: for a tick, for
\* the stop signal, or for its liveness call, which client.Timeout bounds.
\* A ticker that reaches its period puts a tick in ticker.C, which holds
\* one tick at most; the ticker of a returned task is stopped.
Advance ==
    /\ \E b \in Backends : probePc[b] # "done"
    /\ \A b \in Backends : ~Urgent(b)
    /\ probeTime' = [b \in Backends |->
                       [tick |-> IF probePc[b] = "done" THEN probeTime[b].tick
                                 ELSE IF Fires(b) THEN 0 ELSE probeTime[b].tick + 1,
                        call |-> IF probePc[b] = "probing" THEN probeTime[b].call + 1
                                 ELSE probeTime[b].call]]
    /\ tickPending' = [b \in Backends |-> tickPending[b] \/ Fires(b)]
    /\ UNCHANGED <<notProbed, healthStatus, probePc, stopClosed, isHealthy, lastReply,
                   healthMutex, isHealthyCall>>
    /\ Track

\* Stop: one iteration of its loop, close(stopChan) of the next task
Stop ==
    /\ \E b \in Backends :
         /\ ~stopClosed[b]
         /\ \A j \in 0 .. (b - 1) : stopClosed[j]
         /\ stopClosed' = [stopClosed EXCEPT ![b] = TRUE]
    /\ UNCHANGED <<notProbed, probeTime, healthStatus, probePc, tickPending, isHealthy, lastReply, healthMutex, isHealthyCall>>
    /\ Track

----------------------------------------------------------------------------
(* internal/circuitbreaker, step by step: each operation locks cb.mu, reads *)
(* the fields, writes them and unlocks on return                            *)

BreakerOps == {"CanAttempt", "RecordSuccess", "RecordFailure"}

\* A handler that is in no breaker operation, and what it has read
NoOp == [name |-> "none", cb |-> 0]

NoSnapshot == [state |-> stateClosed, failures |-> 0, lastFailureTime |-> ZeroTime]

\* Everything the breaker operations leave alone
notBreaker == <<config, probeVars, counter, healthStatus, now, callVars, counts>>

\* RecordFailure calls on breaker b that have been called and have not yet written
FailuresUnderWay(b) ==
    Cardinality({q \in Handlers :
        cbPc[q] \in {"lock", "read", "write"} /\ cbOp[q] = [name |-> "RecordFailure", cb |-> b]})

\* Handler r calls operation name of breaker b
CallBreaker(r, name, b) ==
    /\ cbPc[r] = "idle"
    /\ name = "RecordFailure" => failures[b] + FailuresUnderWay(b) < MaxFailures
    /\ cbOp' = [cbOp EXCEPT ![r] = [name |-> name, cb |-> b]]
    /\ cbPc' = [cbPc EXCEPT ![r] = "lock"]
    /\ UNCHANGED <<notBreaker, breakerVars, history, mu, seen>>
    /\ Track

\* LockBreaker that does not wait for the mutex
LockBreakerNoWait(r) ==
    /\ cbPc[r] = "lock"
    /\ mu' = [mu EXCEPT ![cbOp[r].cb] = r]
    /\ cbPc' = [cbPc EXCEPT ![r] = "read"]
    /\ UNCHANGED <<notBreaker, breakerVars, history, cbOp, seen>>
    /\ Track

\* cb.mu.Lock()
LockBreaker(r) ==
    /\ cbPc[r] = "lock"
    /\ mu[cbOp[r].cb] = 0
    /\ mu' = [mu EXCEPT ![cbOp[r].cb] = r]
    /\ cbPc' = [cbPc EXCEPT ![r] = "read"]
    /\ UNCHANGED <<notBreaker, breakerVars, history, cbOp, seen>>
    /\ Track

\* The operation reads cb.state, cb.failures and cb.lastFailureTime
ReadBreaker(r) ==
    /\ cbPc[r] = "read"
    /\ LET b == cbOp[r].cb IN
         seen' = [seen EXCEPT ![r] = [state |-> state[b], failures |-> failures[b],
                                      lastFailureTime |-> lastFailureTime[b]]]
    /\ cbPc' = [cbPc EXCEPT ![r] = "write"]
    /\ UNCHANGED <<notBreaker, breakerVars, history, mu, cbOp>>
    /\ Track

\* time.Since(cb.lastFailureTime) > cb.timeout, on the value read
SeenElapsed(r) ==
    \/ seen[r].lastFailureTime = ZeroTime
    \/ now - seen[r].lastFailureTime > timeout

\* CanAttempt: cb.state = stateHalfOpen when it read Open with the window elapsed
WriteCanAttempt(r, b) ==
    /\ state' = IF seen[r].state = stateOpen /\ SeenElapsed(r)
                THEN [state EXCEPT ![b] = stateHalfOpen]
                ELSE state
    /\ UNCHANGED <<failures, lastFailureTime, streak>>
    /\ logged' = [logged EXCEPT ![b] = CanAttemptLog(seen[r].state, SeenElapsed(r))]
    /\ lastCall' = [lastCall EXCEPT ![b] = [op |-> "CanAttempt", from |-> seen[r].state]]

\* RecordSuccess: cb.failures = 0; cb.state = stateClosed
WriteRecordSuccess(r, b) ==
    /\ failures' = [failures EXCEPT ![b] = 0]
    /\ state' = [state EXCEPT ![b] = stateClosed]
    /\ UNCHANGED lastFailureTime
    /\ lastCall' = [lastCall EXCEPT ![b] = [op |-> "RecordSuccess", from |-> seen[r].state]]
    /\ logged' = [logged EXCEPT ![b] = RecordSuccessLog(seen[r].state)]
    /\ streak' = [streak EXCEPT ![b] = 0]

\* RecordFailure: cb.failures++; cb.lastFailureTime = time.Now(); the two
\* cases that set cb.state = stateOpen
WriteRecordFailure(r, b) ==
    /\ failures' = [failures EXCEPT ![b] = seen[r].failures + 1]
    /\ lastFailureTime' = [lastFailureTime EXCEPT ![b] = now]
    /\ state' = IF seen[r].state = stateHalfOpen
                   \/ seen[r].failures + 1 >= failureThreshold
                THEN [state EXCEPT ![b] = stateOpen]
                ELSE state
    /\ lastCall' = [lastCall EXCEPT ![b] = [op |-> "RecordFailure", from |-> seen[r].state]]
    /\ logged' = [logged EXCEPT ![b] = RecordFailureLog(seen[r].state, seen[r].failures)]
    /\ streak' = [streak EXCEPT ![b] = streak[b] + 1]

\* The operation writes the fields it changes
WriteBreaker(r) ==
    /\ cbPc[r] = "write"
    /\ LET b == cbOp[r].cb IN
         CASE cbOp[r].name = "CanAttempt" -> WriteCanAttempt(r, b)
           [] cbOp[r].name = "RecordSuccess" -> WriteRecordSuccess(r, b)
           [] OTHER -> WriteRecordFailure(r, b)
    /\ cbPc' = [cbPc EXCEPT ![r] = "unlock"]
    /\ UNCHANGED <<notBreaker, mu, cbOp, seen>>
    /\ Track

\* defer cb.mu.Unlock(): the operation returns
UnlockBreaker(r) ==
    /\ cbPc[r] = "unlock"
    /\ mu' = [mu EXCEPT ![cbOp[r].cb] = 0]
    /\ cbPc' = [cbPc EXCEPT ![r] = "idle"]
    /\ cbOp' = [cbOp EXCEPT ![r] = NoOp]
    /\ seen' = [seen EXCEPT ![r] = NoSnapshot]
    /\ UNCHANGED <<notBreaker, breakerVars, history>>
    /\ Track

\* The clock advances
Tick ==
    /\ now < MaxTime
    /\ now' = now + 1
    /\ UNCHANGED <<config, probeVars, lockVars, counter, healthStatus, breakerVars, callVars, history, counts>>
    /\ Track

----------------------------------------------------------------------------
(* The system as main() builds it *)

NoCall == [op |-> "none", from |-> stateClosed]

\* No handler is executing a breaker operation
NoOperation ==
    /\ cbOp = [r \in Handlers |-> NoOp]
    /\ cbPc = [r \in Handlers |-> "idle"]
    /\ seen = [r \in Handlers |-> NoSnapshot]

\* The breakers' mutexes as New leaves them, and no operation under way
Unlocked(n) ==
    /\ mu = [b \in 0 .. (n - 1) |-> 0]
    /\ NoOperation

\* A configuration file listing n backends, loaded by a main() that has
\* built everything and is serving
MainServing(n) ==
    LET file == [kind |-> "yaml", port |-> 8080,
                 backends |-> [k \in 1 .. n |-> [URL |-> "http://backend", Weight |-> 1]]]
    IN  /\ configFile = file
        /\ cfg = <<Unmarshal(file)>>
        /\ mainPc = "serving"

\* The probe tasks as StartChecking leaves them: each waiting at its select,
\* no tick yet, stop channel open
ProbeStarted(n) ==
    /\ probePc = [b \in 0 .. (n - 1) |-> "select"]
    /\ tickPending = [b \in 0 .. (n - 1) |-> FALSE]
    /\ stopClosed = [b \in 0 .. (n - 1) |-> FALSE]
    /\ isHealthy = [b \in 0 .. (n - 1) |-> FALSE]
    /\ lastReply = [b \in 0 .. (n - 1) |-> "none"]
    /\ healthMutex = -1
    /\ isHealthyCall = [r \in Handlers |-> NoIsHealthy]
    /\ probeTime = [b \in 0 .. (n - 1) |-> [tick |-> 0, call |-> 0]]

InitState(n, threshold, t, rep, m, c) ==
    /\ backendCount = n
    /\ failureThreshold = threshold
    /\ timeout = t
    /\ replies = rep
    /\ numRequests = m
    /\ cursor0 = c
    /\ counter = c
    /\ healthStatus = NewChecker(n)
    /\ state = [b \in 0 .. (n - 1) |-> stateClosed]
    /\ failures = [b \in 0 .. (n - 1) |-> 0]
    /\ lastFailureTime = [b \in 0 .. (n - 1) |-> ZeroTime]
    /\ now = 0
    /\ pc = [r \in Handlers |-> "idle"]
    /\ next = [r \in Handlers |-> 0]
    /\ i = [r \in Handlers |-> 0]
    /\ ret = [r \in Handlers |-> 0]
    /\ fallback = [r \in Handlers |-> FALSE]
    /\ elig = [r \in Handlers |-> {}]
    /\ unh = [r \in Handlers |-> {}]
    /\ blocked = [r \in Handlers |-> {}]
    /\ lastCall = [b \in 0 .. (n - 1) |-> NoCall]
    /\ logged = [b \in 0 .. (n - 1) |-> "none"]
    /\ streak = [b \in 0 .. (n - 1) |-> 0]
    /\ counts = [b \in 0 .. (n - 1) |-> 0]
    /\ ProbeStarted(n)
    /\ MainServing(n)
    /\ Unlocked(n)

Init ==
    \E n \in 1 .. MaxBackends, threshold \in 1 .. MaxThreshold :
        InitState(n, threshold, MainTimeout, [b \in 0 .. (n - 1) |-> Outcomes],
                  MaxCalls, 0)

Next ==
    \/ \E r \in Handlers : Select(r)
    \/ \E r \in Handlers : CheckHealth(r)
    \/ \E r \in Handlers : CheckCircuit(r)
    \/ \E r \in Handlers : Forward(r)
    \/ \E b \in Backends : ProbeTick(b)
    \/ Tick

Spec == Init /\ [][Next]_vars

----------------------------------------------------------------------------
(* The tests' systems: no probe task is started, and the test takes far    *)
(* less than a tick.                                                       *)

\* Requests handled concurrently
NextRequests ==
    \/ \E r \in Handlers : Select(r)
    \/ \E r \in Handlers : CheckHealth(r)
    \/ \E r \in Handlers : CheckCircuit(r)
    \/ \E r \in Handlers : Forward(r)

\* Requests handled one after another, as the tests' loops do
NextSequential ==
    \/ Select(1)
    \/ CheckHealth(1)
    \/ CheckCircuit(1)
    \/ Forward(1)

\* TestRoundRobinDistribution, for any backend count and starting cursor
InitRoundRobin ==
    \E n \in 1 .. MaxScanBackends, c \in Cursors :
        InitState(n, TestThreshold, TestTimeout,
                  [b \in 0 .. (n - 1) |-> {"status200"}], MaxRoundRobin, c)

SpecRoundRobin == InitRoundRobin /\ [][NextRequests]_vars

\* TestCircuitBreakerOpens: one backend answers every request with an error,
\* an HTTP 500 response as in the test or a failed round trip.
InitCircuitTest ==
    \E bad \in 0 .. (CircuitTestBackends - 1), error \in {"status500", "transportError"} :
        InitState(CircuitTestBackends, CircuitTestThreshold, TestTimeout,
                  [b \in 0 .. (CircuitTestBackends - 1) |->
                     IF b = bad THEN {error} ELSE {"status200"}],
                  CircuitTestRequests, 0)

SpecCircuitTest == InitCircuitTest /\ [][NextSequential]_vars

\* TestHealthCheckFailover, for any backend count, any backend forced
\* unhealthy with SetHealthy before the requests, and any starting cursor
InitFailover ==
    \E n \in 2 .. MaxScanBackends :
      \E k \in 0 .. (n - 1), c \in Cursors :
        /\ backendCount = n
        /\ failureThreshold = TestThreshold
        /\ timeout = TestTimeout
        /\ replies = [b \in 0 .. (n - 1) |-> {"status200"}]
        /\ numRequests = FailoverRequests
        /\ cursor0 = c
        /\ counter = c
        /\ healthStatus = SetHealthy(NewChecker(n), k, FALSE)
        /\ state = [b \in 0 .. (n - 1) |-> stateClosed]
        /\ failures = [b \in 0 .. (n - 1) |-> 0]
        /\ lastFailureTime = [b \in 0 .. (n - 1) |-> ZeroTime]
        /\ now = 0
        /\ pc = [r \in Handlers |-> "idle"]
        /\ next = [r \in Handlers |-> 0]
        /\ i = [r \in Handlers |-> 0]
        /\ ret = [r \in Handlers |-> 0]
        /\ fallback = [r \in Handlers |-> FALSE]
        /\ elig = [r \in Handlers |-> {}]
        /\ unh = [r \in Handlers |-> {}]
        /\ blocked = [r \in Handlers |-> {}]
        /\ lastCall = [b \in 0 .. (n - 1) |-> NoCall]
        /\ logged = [b \in 0 .. (n - 1) |-> "none"]
        /\ streak = [b \in 0 .. (n - 1) |-> 0]
        /\ counts = [b \in 0 .. (n - 1) |-> 0]
        /\ ProbeStarted(n)
        /\ MainServing(n)
        /\ Unlocked(n)

SpecFailover == InitFailover /\ [][NextSequential]_vars

----------------------------------------------------------------------------
(* One selection in a system that has been running: any cursor value, any  *)
(* health map, and every breaker Closed, Open with its window still        *)
(* running, Open with its window elapsed, or HalfOpen.  A breaker that is  *)
(* not Closed failed failureThreshold times at time 0 (window elapsed at   *)
(* the starting time) or at the starting time itself.                      *)

BreakerConditions == {"closed", "openFresh", "openElapsed", "halfOpen"}

ConditionState(c) ==
    CASE c = "closed" -> stateClosed
      [] c = "halfOpen" -> stateHalfOpen
      [] OTHER -> stateOpen

\* A running system with n backends: cursor c, health map h, backend b's
\* breaker in condition cond[b], backends answering with rep, m requests
\* still to come
InitRunning(n, c, h, cond, rep, m) ==
    /\ backendCount = n
    /\ failureThreshold = MainThreshold
    /\ timeout = MainTimeout
    /\ replies = rep
    /\ numRequests = m
    /\ cursor0 = c
    /\ counter = c
    /\ healthStatus = h
    /\ state = [b \in 0 .. (n - 1) |-> ConditionState(cond[b])]
    /\ failures = [b \in 0 .. (n - 1) |->
                     IF cond[b] = "closed" THEN 0 ELSE MainThreshold]
    /\ lastFailureTime = [b \in 0 .. (n - 1) |->
                            CASE cond[b] = "closed" -> ZeroTime
                              [] cond[b] = "openFresh" -> MainTimeout + 1
                              [] OTHER -> 0]
    /\ now = MainTimeout + 1
    /\ pc = [r \in Handlers |-> "idle"]
    /\ next = [r \in Handlers |-> 0]
    /\ i = [r \in Handlers |-> 0]
    /\ ret = [r \in Handlers |-> 0]
    /\ fallback = [r \in Handlers |-> FALSE]
    /\ elig = [r \in Handlers |-> {}]
    /\ unh = [r \in Handlers |-> {}]
    /\ blocked = [r \in Handlers |-> {}]
    /\ lastCall = [b \in 0 .. (n - 1) |-> NoCall]
    /\ logged = [b \in 0 .. (n - 1) |-> "none"]
    /\ streak = [b \in 0 .. (n - 1) |->
                   IF cond[b] = "closed" THEN 0 ELSE MainThreshold]
    /\ counts = [b \in 0 .. (n - 1) |-> 0]
    /\ ProbeStarted(n)
    /\ MainServing(n)
    /\ Unlocked(n)

InitScan ==
    \E n \in 1 .. MaxScanBackends :
      \E c \in Cursors, h \in [0 .. (n - 1) -> BOOLEAN],
         cond \in [0 .. (n - 1) -> BreakerConditions] :
        InitRunning(n, c, h, cond, [b \in 0 .. (n - 1) |-> Outcomes], 1)

\* Every backend out of service: unhealthy, or healthy behind an Open breaker
\* whose window is still running
TotalOutage == \A b \in Backends : ~Eligible(b)

\* Requests arriving one after another during a total outage that began in
\* a running system: every backend is unhealthy (its breaker in any
\* condition) or has failed failureThreshold times just now, and every
\* forwarded request fails.  The outage is much shorter than a tick.
InitOutage ==
    \E n \in 1 .. MaxScanBackends :
      \E c \in Cursors, h \in [0 .. (n - 1) -> BOOLEAN],
         cond \in [0 .. (n - 1) -> BreakerConditions] :
        /\ \A b \in 0 .. (n - 1) : h[b] => cond[b] = "openFresh"
        /\ InitRunning(n, c, h, cond, [b \in 0 .. (n - 1) |-> {"transportError"}],
                       MaxOutage)

SpecOutage == InitOutage /\ [][NextSequential]_vars

\* Requests handled concurrently in a running system, within one tick and
\* between two probes
InitConcurrent ==
    \E n \in 1 .. MaxBackends :
      \E c \in Cursors, h \in [0 .. (n - 1) -> BOOLEAN],
         cond \in [0 .. (n - 1) -> BreakerConditions] :
        InitRunning(n, c, h, cond, [b \in 0 .. (n - 1) |-> Outcomes], MaxConcurrent)

SpecConcurrent == InitConcurrent /\ [][NextRequests]_vars

\* The same system with requests that keep arriving and being served: every
\* handler goroutine that can take a step eventually takes one
HandlerStep(r) == Select(r) \/ CheckHealth(r) \/ CheckCircuit(r) \/ Forward(r)

SpecRecovery ==
    /\ InitConcurrent
    /\ [][NextRequests]_vars
    /\ \A r \in Handlers : WF_vars(HandlerStep(r))

\* One request, with the probe tasks and the clock running beside it
NextScan ==
    \/ Select(1)
    \/ CheckHealth(1)
    \/ CheckCircuit(1)
    \/ Forward(1)
    \/ \E b \in Backends : ProbeTick(b)
    \/ Tick

SpecScan == InitScan /\ [][NextScan]_vars

----------------------------------------------------------------------------
(* The health checker alone: the probe tasks main() starts, and a Stop *)

InitProbe ==
    \E n \in 1 .. MaxBackends :
        InitState(n, MainThreshold, MainTimeout, [b \in 0 .. (n - 1) |-> Outcomes], 0, 0)

NextProbe ==
    \/ \E b \in Backends : TickerFires(b)
    \/ \E b \in Backends : TakeTick(b)
    \/ \E b \in Backends : TakeStop(b)
    \/ \E b \in Backends : CheckHealthReturns(b)
    \/ \E b \in Backends : LockHealth(b)
    \/ \E b \in Backends : WriteHealth(b)
    \/ Stop

SpecProbe == InitProbe /\ [][NextProbe]_vars

\* The probe tasks in time: tickers fire at their period, liveness calls
\* end within their timeout, and a task that can take a step takes it
\* before time advances
TaskStep(b) ==
    /\ b \in Backends
    /\ TakeTick(b) \/ TakeStop(b) \/ CheckHealthReturns(b) \/ LockHealth(b) \/ WriteHealth(b)

NextShutdown ==
    \/ \E b \in Backends : TakeTick(b)
    \/ \E b \in Backends : TakeStop(b)
    \/ \E b \in Backends : CheckHealthReturns(b)
    \/ \E b \in Backends : LockHealth(b)
    \/ \E b \in Backends : WriteHealth(b)
    \/ Advance
    \/ Stop

SpecShutdown ==
    /\ InitProbe
    /\ [][NextShutdown]_vars
    /\ \A b \in 0 .. (MaxBackends - 1) : WF_vars(TaskStep(b))

\* The probe tasks with the handlers reading the health map beside them
NextHealthLock ==
    \/ NextProbe
    \/ \E r \in Handlers, idx \in Backends : RLockHealth(r, idx)
    \/ \E r \in Handlers : ReturnIsHealthy(r)

SpecHealthLock == InitProbe /\ [][NextHealthLock]_vars

----------------------------------------------------------------------------
(* Startup: main() from config.Load to the running system *)

\* url.Parse rejects the URL, so createProxy returns an error
ParseFails(u) == u = "%zz"

\* circuitbreaker.New has been called for the first n backends
BreakersBuilt(n) ==
    /\ state = [b \in 0 .. (n - 1) |-> stateClosed]
    /\ failures = [b \in 0 .. (n - 1) |-> 0]
    /\ lastFailureTime = [b \in 0 .. (n - 1) |-> ZeroTime]
    /\ lastCall = [b \in 0 .. (n - 1) |-> NoCall]
    /\ logged = [b \in 0 .. (n - 1) |-> "none"]
    /\ streak = [b \in 0 .. (n - 1) |-> 0]
    /\ counts = [b \in 0 .. (n - 1) |-> 0]
    /\ mu = [b \in 0 .. (n - 1) |-> 0]

\* No breaker, no proxy, no health checker and no probe task exists
NothingBuilt ==
    /\ backendCount = 0
    /\ replies = <<>>
    /\ BreakersBuilt(0)
    /\ healthStatus = NewChecker(0)
    /\ ProbeStarted(0)

InitStartup ==
    /\ configFile \in ConfigFiles
    /\ cfg = <<>>
    /\ mainPc = "load"
    /\ NothingBuilt
    /\ failureThreshold = MainThreshold
    /\ timeout = MainTimeout
    /\ numRequests = 0
    /\ cursor0 = 0
    /\ counter = 0
    /\ now = 0
    /\ pc = [r \in Handlers |-> "idle"]
    /\ next = [r \in Handlers |-> 0]
    /\ i = [r \in Handlers |-> 0]
    /\ ret = [r \in Handlers |-> 0]
    /\ fallback = [r \in Handlers |-> FALSE]
    /\ elig = [r \in Handlers |-> {}]
    /\ unh = [r \in Handlers |-> {}]
    /\ blocked = [r \in Handlers |-> {}]
    /\ NoOperation

\* cfg, err := config.Load("config.yaml"); if err != nil { log.Fatalf(...) }
LoadConfig ==
    /\ mainPc = "load"
    /\ cfg' = Load(configFile).cfg
    /\ mainPc' = IF Load(configFile).err # "nil" THEN "loadFailed" ELSE "build"
    /\ UNCHANGED <<backendCount, failureThreshold, timeout, replies, numRequests,
                   cursor0, configFile, counter, healthStatus, breakerVars, now,
                   callVars, elig, unh, blocked, history, counts, probeVars, lockVars>>

\* The state main's first loop leaves after circuitbreaker.New for the
\* first n backends
BuildBreakers(n) ==
    /\ state' = [b \in 0 .. (n - 1) |-> stateClosed]
    /\ failures' = [b \in 0 .. (n - 1) |-> 0]
    /\ lastFailureTime' = [b \in 0 .. (n - 1) |-> ZeroTime]
    /\ lastCall' = [b \in 0 .. (n - 1) |-> NoCall]
    /\ logged' = [b \in 0 .. (n - 1) |-> "none"]
    /\ streak' = [b \in 0 .. (n - 1) |-> 0]
    /\ counts' = [b \in 0 .. (n - 1) |-> 0]
    /\ mu' = [b \in 0 .. (n - 1) |-> 0]

\* health.NewChecker(n) and StartChecking for each of the n backends
BuildChecker(n) ==
    /\ healthStatus' = NewChecker(n)
    /\ probePc' = [b \in 0 .. (n - 1) |-> "select"]
    /\ tickPending' = [b \in 0 .. (n - 1) |-> FALSE]
    /\ stopClosed' = [b \in 0 .. (n - 1) |-> FALSE]
    /\ isHealthy' = [b \in 0 .. (n - 1) |-> FALSE]
    /\ lastReply' = [b \in 0 .. (n - 1) |-> "none"]
    /\ healthMutex' = -1
    /\ isHealthyCall' = [r \in Handlers |-> NoIsHealthy]
    /\ probeTime' = [b \in 0 .. (n - 1) |-> [tick |-> 0, call |-> 0]]

\* The two loops of main: a breaker and a proxy per backend (log.Fatalf at
\* the first backend whose proxy cannot be created), then the health
\* checker and a probe task per backend
BuildComponents ==
    /\ mainPc = "build"
    /\ LET backends == cfg[1].Backends
           n == Len(backends)
           bad == {k \in 1 .. n : ParseFails(backends[k].URL)}
       IN  IF bad = {}
           THEN /\ backendCount' = n
                /\ replies' = [b \in 0 .. (n - 1) |-> Outcomes]
                /\ BuildBreakers(n)
                /\ BuildChecker(n)
                /\ mainPc' = "serving"
           ELSE /\ backendCount' = 0
                /\ replies' = <<>>
                /\ BuildBreakers(CHOOSE k \in bad : \A o \in bad : k <= o)
                /\ BuildChecker(0)
                /\ mainPc' = "proxyFailed"
    /\ UNCHANGED <<failureThreshold, timeout, numRequests, cursor0, configFile, cfg,
                   counter, now, callVars, elig, unh, blocked, cbOp, cbPc, seen>>

NextStartup == LoadConfig \/ BuildComponents

SpecStartup == InitStartup /\ [][NextStartup]_vars

----------------------------------------------------------------------------
(* The breakers alone: the handlers' goroutines call their operations      *)
(* concurrently, as selectBackend and the proxies' callbacks do            *)

InitBreaker ==
    \E n \in 1 .. MaxBackends :
      \E cond \in [0 .. (n - 1) -> BreakerConditions] :
        InitRunning(n, 0, NewChecker(n), cond, [b \in 0 .. (n - 1) |-> Outcomes], 0)

NextBreaker ==
    \/ \E r \in Handlers, name \in BreakerOps, b \in Backends : CallBreaker(r, name, b)
    \/ \E r \in Handlers : LockBreaker(r)
    \/ \E r \in Handlers : ReadBreaker(r)
    \/ \E r \in Handlers : WriteBreaker(r)
    \/ \E r \in Handlers : UnlockBreaker(r)
    \/ Tick

SpecBreaker == InitBreaker /\ [][NextBreaker]_vars

----------------------------------------------------------------------------
(* Properties *)

Returned(r) == pc[r] = "forward"

\* The offsets of the scan: for i := range backendCount
Offsets == 0 .. (backendCount - 1)

\* C1: whatever the backend count, the cursor, the health map and the
\* breakers' states, also when no backend is eligible, the index that
\* selectBackend returns lies in [0, backendCount).
C1_IndexInRange ==
    \A r \in Handlers : Returned(r) => 0 <= ret[r] /\ ret[r] < backendCount

\* A call returned through the fall-through while every backend was
\* unhealthy or had an Open breaker whose window was still running.
C1_Witness ==
    \E r \in Handlers :
        /\ Returned(r)
        /\ fallback[r]
        /\ backendCount > 2
        /\ elig[r] = {}
        /\ \E b \in Backends : b \in unh[r]
        /\ \E b \in Backends : b \in blocked[r] /\ state[b] = stateOpen

\* The k-th index of the cyclic order that starts at n mod backendCount
CyclicIndex(n, k) == (n + k) % backendCount

\* C2: selectBackend returns the first index of the cyclic order
\* next mod N, (next+1) mod N, ..., (next+N-1) mod N that passes the health
\* check and the breaker's CanAttempt: a backend returned from the scan was
\* healthy and open to attempts when it was checked, and when the k-th
\* index of the order was eligible during the whole call, the call returns
\* from the scan one of the indices up to the k-th.
C2_CyclicFirst ==
    \A r \in Handlers : Returned(r) =>
        /\ ~fallback[r] => ret[r] \notin unh[r] /\ ret[r] \notin blocked[r]
        /\ \A k \in Offsets :
              CyclicIndex(next[r], k) \in elig[r] =>
                  /\ ~fallback[r]
                  /\ \E j \in 0 .. k : ret[r] = CyclicIndex(next[r], j)

----------------------------------------------------------------------------
(* Circuit breaker properties, over the full system *)

\* Handler r completes a CanAttempt call in this step
CanAttemptStep(r) == pc[r] = "circuit" /\ pc'[r] # "circuit"

\* ... and the call returned true: selectBackend returns the candidate
ReturnsTrue(r) == pc'[r] = "forward" /\ ~fallback'[r] /\ ret'[r] = Candidate(next[r], i[r])

\* Handler r's request completes in this step, with an outcome recorded on b
OutcomeStep(r, b) == pc[r] = "forward" /\ pc'[r] = "idle" /\ ret[r] = b

\* C3: fewer than failureThreshold consecutive failures leave the breaker
\* Closed with CanAttempt true; right after the failureThreshold-th one the
\* breaker is Open and CanAttempt is false; RecordSuccess before the
\* threshold zeroes the failure count and leaves the breaker Closed.
C3_OpensAtThreshold ==
    \A b \in Backends :
        /\ streak[b] < failureThreshold =>
              state[b] = stateClosed /\ CanAttemptResult(b) /\ failures[b] = streak[b]
        /\ streak[b] = failureThreshold /\ lastFailureTime[b] = now =>
              state[b] = stateOpen /\ ~CanAttemptResult(b)
        /\ lastCall[b].op = "RecordSuccess" => failures[b] = 0 /\ state[b] = stateClosed

\* A Closed breaker with a threshold above 1 has just been opened by its
\* failureThreshold-th consecutive failure.
C3_Witness ==
    \E b \in Backends :
        /\ failureThreshold > 1
        /\ streak[b] = failureThreshold
        /\ lastCall[b] = [op |-> "RecordFailure", from |-> stateClosed]
        /\ lastFailureTime[b] = now
        /\ state[b] = stateOpen

\* C4: a CanAttempt on an Open breaker returns false and leaves it Open
\* while the time since the last failure is at most the timeout; once it
\* exceeds the timeout, the call returns true and makes the breaker
\* HalfOpen in the same step.
C4_OpenWindow ==
    [][\A r \in Handlers :
          LET b == Candidate(next[r], i[r]) IN
          CanAttemptStep(r) /\ state[b] = stateOpen =>
              IF now - lastFailureTime[b] <= timeout
              THEN state'[b] = stateOpen /\ ~ReturnsTrue(r)
              ELSE state'[b] = stateHalfOpen /\ ReturnsTrue(r)]_vars

\* A CanAttempt found the breaker Open one tick after the window ran out,
\* made it HalfOpen, and selectBackend returned that backend.
C4_Witness ==
    \E r \in Handlers :
        /\ Returned(r) /\ ~fallback[r]
        /\ lastCall[ret[r]] = [op |-> "CanAttempt", from |-> stateOpen]
        /\ state[ret[r]] = stateHalfOpen
        /\ now - lastFailureTime[ret[r]] = timeout + 1

\* C5 as stated: after the call that entered HalfOpen, no further CanAttempt
\* on that breaker returns true until an outcome is recorded, that is, no
\* CanAttempt that finds the breaker HalfOpen returns true.
C5_Original ==
    [][\A r \in Handlers :
          CanAttemptStep(r) /\ state[Candidate(next[r], i[r])] = stateHalfOpen =>
              ~ReturnsTrue(r)]_vars

\* C5, amended: the breaker enters HalfOpen exactly through a CanAttempt
\* that finds it Open with the window elapsed and returns true; every
\* CanAttempt that finds it HalfOpen returns true as well and leaves it
\* HalfOpen.
C5_HalfOpenAdmits ==
    [][/\ \A r \in Handlers :
            CanAttemptStep(r) /\ state[Candidate(next[r], i[r])] = stateHalfOpen =>
                ReturnsTrue(r) /\ state'[Candidate(next[r], i[r])] = stateHalfOpen
       /\ \A b \in Backends :
            state[b] # stateHalfOpen /\ state'[b] = stateHalfOpen =>
                /\ state[b] = stateOpen
                /\ now - lastFailureTime[b] > timeout
                /\ \E r \in Handlers :
                      CanAttemptStep(r) /\ Candidate(next[r], i[r]) = b /\ ReturnsTrue(r)
      ]_vars

\* Two requests are on their way to the same backend: one entered HalfOpen,
\* the other called CanAttempt on the HalfOpen breaker and was admitted too.
C5_Witness ==
    \E r1, r2 \in Handlers :
        /\ r1 # r2
        /\ Returned(r1) /\ Returned(r2)
        /\ ~fallback[r1] /\ ~fallback[r2]
        /\ ret[r1] = ret[r2]
        /\ state[ret[r1]] = stateHalfOpen
        /\ lastCall[ret[r1]] = [op |-> "CanAttempt", from |-> stateHalfOpen]

\* C6: an outcome recorded on a HalfOpen breaker: a failure makes it Open
\* and stamps the current time, so CanAttempt stays false for the whole
\* timeout; a success makes it Closed with a failure count of 0.
C6_HalfOpenOutcome ==
    [][\A r \in Handlers, b \in Backends :
          OutcomeStep(r, b) /\ state[b] = stateHalfOpen =>
              \/ /\ lastCall'[b].op = "RecordFailure"
                 /\ state'[b] = stateOpen
                 /\ lastFailureTime'[b] = now
                 /\ \A t \in now .. (now + timeout) : ~WindowElapsedAt(b, t)'
              \/ /\ lastCall'[b].op = "RecordSuccess"
                 /\ state'[b] = stateClosed
                 /\ failures'[b] = 0
                 /\ streak'[b] = 0]_vars

\* A failure was recorded on a HalfOpen breaker, later than the failure
\* that had opened it.
C6_Witness ==
    \E b \in Backends :
        /\ lastCall[b] = [op |-> "RecordFailure", from |-> stateHalfOpen]
        /\ state[b] = stateOpen
        /\ lastFailureTime[b] = now
        /\ now > timeout

\* C7: every change of a breaker's state is one of the four edges.
Edges ==
    {<<stateClosed, stateOpen>>, <<stateOpen, stateHalfOpen>>,
     <<stateHalfOpen, stateClosed>>, <<stateHalfOpen, stateOpen>>}

C7_OnlyEdges ==
    [][\A b \in Backends :
          state'[b] # state[b] => <<state[b], state'[b]>> \in Edges]_vars

----------------------------------------------------------------------------
(* Properties of the tests' scenarios *)

\* No selectBackend call is in progress
NoCallInProgress == \A r \in Handlers : ~InCall(pc[r])

\* Every request has been selected and forwarded
AllServed == CallsStarted = numRequests /\ \A r \in Handlers : pc[r] = "idle"

\* Backend b answers every forwarded request with an error
Erroring(b) == "status200" \notin replies[b]

\* C8: the erroring backend receives exactly failureThreshold requests, each
\* recorded as a failure; the last of them opens its circuit and every
\* later request goes to the other backend.
C8_ThreeThenOpen ==
    \A b \in Backends : Erroring(b) =>
        /\ counts[b] <= failureThreshold
        /\ (\A r \in Handlers : pc[r] = "idle") =>
              /\ streak[b] = counts[b]
              /\ state[b] = stateOpen <=> counts[b] = failureThreshold
        /\ AllServed => counts[b] = failureThreshold

Balanced == \A a, b \in Backends : counts[a] - counts[b] <= 1

NoWrap == cursor0 + CallsStarted < CounterMod

C10_UnhealthyNotReturned ==
    \A r \in Handlers : Returned(r) =>
        \A k \in unh[r] : elig[r] \ {k} # {} => ret[r] # k

\* The cursor landed on an unhealthy backend with an Open breaker whose
\* window had elapsed; the call returned another backend and left the
\* unhealthy backend's breaker alone.
C10_Witness ==
    \E r \in Handlers :
        /\ Returned(r)
        /\ Candidate(next[r], 0) \in unh[r]
        /\ state[Candidate(next[r], 0)] = stateOpen
        /\ Candidate(next[r], 0) \notin blocked[r]
        /\ elig[r] # {}
        /\ ret[r] # Candidate(next[r], 0)

----------------------------------------------------------------------------
(* One backend out of service *)

Abs(x) == IF x < 0 THEN -x ELSE x

\* The backends the health map holds as unhealthy
Unhealthy == {b \in Backends : ~healthStatus[b]}

\* The next backend in cyclic order
Successor(k) == (k + 1) % backendCount

\* C11 as stated: with exactly one backend unhealthy, once the M calls have
\* been served the unhealthy backend was returned 0 times and each of the
\* other N-1 backends M/(N-1) times, to within the scenario's 10.
C11_Original ==
    AllServed /\ Cardinality(Unhealthy) = 1 =>
        \A b \in Backends :
            IF b \in Unhealthy THEN counts[b] = 0
            ELSE Abs((backendCount - 1) * counts[b] - numRequests)
                     <= 10 * (backendCount - 1)

\* How many backends' turns fall to backend b when k is out of service
Turns(b, k) ==
    IF b = k THEN 0 ELSE IF b = Successor(k) THEN 2 ELSE 1

\* C11, amended: with exactly one backend k unhealthy, after any number m of
\* calls k was returned 0 times, its cyclic successor 2m/N times and every
\* other backend m/N times, each to within 2, or to within 5 when the cursor
\* wrapped around during the calls.
C11_SuccessorDoubleShare ==
    NoCallInProgress /\ Cardinality(Unhealthy) = 1 =>
        \A b \in Backends, k \in Unhealthy :
            /\ counts[k] = 0
            /\ Abs(backendCount * counts[b] - Turns(b, k) * CallsStarted)
                  <= (IF NoWrap THEN 2 ELSE 5) * backendCount

\* 300 requests over 3 backends with backend 1 out of service, from a
\* cursor just before the wrap-around: served, none by backend 1.
C11_Witness ==
    /\ AllServed
    /\ backendCount = 3
    /\ Unhealthy = {1}
    /\ cursor0 = CounterMod - 1
    /\ counts[1] = 0
    /\ counts[2] > counts[0] + 90

\* C12: 3 backends with Closed circuits, backend 1 unhealthy, cursor
\* starting at 0, sequential calls: every call whose cursor lands on backend
\* 1 returns backend 2 and every other call the backend it lands on, so the
\* 300 calls return backend 0 about 100 times (90..110), backend 1 never and
\* backend 2 about 200 times (190..210).
C12_FailoverCounts ==
    backendCount = 3 /\ Unhealthy = {1} /\ cursor0 = 0 =>
        /\ \A r \in Handlers : Returned(r) =>
              ret[r] = IF CyclicIndex(next[r], 0) = 1 THEN Successor(1)
                       ELSE CyclicIndex(next[r], 0)
        /\ counts[1] = 0
        /\ AllServed =>
              /\ counts[0] \in 90 .. 110
              /\ counts[2] \in 190 .. 210

\* The test's 300 requests have been served: 100 by backend 0, 200 by
\* backend 2.
C12_Witness ==
    /\ AllServed
    /\ backendCount = 3 /\ Unhealthy = {1} /\ cursor0 = 0
    /\ numRequests = FailoverRequests
    /\ counts[0] = 100 /\ counts[1] = 0 /\ counts[2] = 200

----------------------------------------------------------------------------
(* Total outage *)

\* Handler r takes a step of its selectBackend call
CallStep(r) ==
    /\ pc[r] \in {"idle", "health", "circuit"}
    /\ pc'[r] # pc[r] \/ i'[r] # i[r]

\* Handler r's call returns through the fall-through at the end of the scan
FallThroughStep(r) == InCall(pc[r]) /\ pc'[r] = "forward" /\ fallback'[r]

\* A call that admits no candidate changes neither the health map nor any
\* breaker, and when it falls through it returns next mod backendCount.
FallThroughCall ==
    \A r \in Handlers :
        /\ CallStep(r) /\ ~ReturnsTrue(r) =>
              UNCHANGED <<healthStatus, state, failures, lastFailureTime>>
        /\ FallThroughStep(r) => ret'[r] = CyclicIndex(next[r], 0)

\* How many of the cursor values cursor0+1 .. cursor0+m fall on backend b in
\* cyclic order
Landings(b, m) ==
    Cardinality({j \in 1 .. m : CyclicIndex(cursor0 + j, 0) = b})

\* The calls made so far, during a total outage, went round the backends in
\* cyclic order
OutageRotation ==
    NoCallInProgress /\ TotalOutage =>
        \A b \in Backends : counts[b] = Landings(b, CallsStarted)

----------------------------------------------------------------------------
(* Probe tasks *)

\* Backend b's task issues its liveness call in this step
ProbeIssued(b) == probePc[b] = "select" /\ probePc'[b] = "probing"

\* Backend b's entry of the health map is written in this step
HealthWritten(b) == healthStatus'[b] # healthStatus[b]

\* C14: once a task's stop channel has been closed, the task issues no
\* liveness call and writes nothing to the health map, whether a tick was
\* pending or a liveness call in flight when the channel was closed.
C14_QuietAfterStop ==
    [][\A b \in Backends :
          stopClosed[b] => ~ProbeIssued(b) /\ ~HealthWritten(b)]_vars

----------------------------------------------------------------------------
(* Configuration *)

\* The four defects of a configuration
InvalidConfig(c) ==
    \/ c.Port < 1 \/ c.Port > 65535
    \/ c.Backends = <<>>
    \/ \E k \in 1 .. Len(c.Backends) : c.Backends[k].URL = ""
    \/ \E k \in 1 .. Len(c.Backends) : c.Backends[k].Weight <= 0

\* C15: validation returns an error, and Load no Config, exactly when the
\* port is outside 1..65535, the backend list is empty, a URL is empty or a
\* weight is not positive; and when loading fails for whatever reason,
\* main() stops with nothing constructed.
C15_ValidationFatal ==
    /\ configFile.kind = "yaml" =>
          /\ Validate(Unmarshal(configFile)) # "nil" <=> InvalidConfig(Unmarshal(configFile))
          /\ mainPc # "load" =>
                (mainPc = "loadFailed" <=> InvalidConfig(Unmarshal(configFile)))
    /\ mainPc # "load" /\ Load(configFile).err # "nil" =>
          /\ mainPc = "loadFailed"
          /\ cfg = <<>>
          /\ NothingBuilt
    /\ mainPc \in {"build", "serving", "proxyFailed"} =>
          cfg = <<Unmarshal(configFile)>> /\ ~InvalidConfig(cfg[1])

\* Loading failed for one reason only, a weight of 0 on the second backend,
\* and nothing was constructed.
C15_Witness ==
    /\ mainPc = "loadFailed"
    /\ configFile.kind = "yaml"
    /\ configFile.port = 65535
    /\ Len(configFile.backends) = 2
    /\ \A k \in 1 .. 2 : configFile.backends[k].URL # ""
    /\ configFile.backends[1].Weight = 1
    /\ configFile.backends[2].Weight = 0
    /\ NothingBuilt

----------------------------------------------------------------------------
(* Concurrent requests *)

\* Handler r starts a selectBackend call in this step
SelectStep(r) == pc[r] = "idle" /\ pc'[r] = "health"

\* The handlers that hold a cursor value: in a call, or forwarding
Holding == {r \in Handlers : pc[r] # "idle"}

\* The cursor moves by one, and only, when a call starts; the call obtains
\* the new value
CursorStep ==
    /\ \A r \in Handlers :
          SelectStep(r) => counter' = (counter + 1) % CounterMod /\ next'[r] = counter'
    /\ (\A r \in Handlers : ~SelectStep(r)) => counter' = counter

\* After k calls the cursor is at c+k, and the values held are distinct
\* values among c+1 .. c+k
CursorAfterCalls ==
    /\ counter = (cursor0 + CallsStarted) % CounterMod
    /\ \A r \in Holding :
          \E j \in 1 .. CallsStarted : next[r] = (cursor0 + j) % CounterMod
    /\ \A r1, r2 \in Holding : r1 # r2 => next[r1] # next[r2]

\* C16: the cursor advances by exactly 1 per selectBackend call, however
\* many candidates the call skips and whatever it returns: k calls in any
\* interleaving from cursor c leave it at c+k (in the cursor's width) and
\* obtain distinct values among c+1 .. c+k.
C16_CursorAdvancesByOne == [][CursorStep]_vars /\ []CursorAfterCalls

\* Three calls from a cursor just before the wrap-around; two of them are
\* being forwarded, one returned from the scan after skipping a candidate
\* and one through the fall-through.
C16_Witness ==
    /\ cursor0 = CounterMod - 2
    /\ CallsStarted = 3
    /\ counter = 1
    /\ \E r1, r2 \in Handlers :
          /\ Returned(r1) /\ ~fallback[r1] /\ ret[r1] # CyclicIndex(next[r1], 0)
          /\ Returned(r2) /\ fallback[r2]

----------------------------------------------------------------------------
(* Concurrent operations on a breaker *)

\* Handler r is inside the critical section of breaker b
Inside(r, b) == cbOp[r].cb = b /\ cbPc[r] \in {"read", "write", "unlock"}

\* Handler r is in a CanAttempt on breaker b and has read it Open with the
\* window elapsed
SawElapsed(r, b) ==
    /\ cbOp[r] = [name |-> "CanAttempt", cb |-> b]
    /\ cbPc[r] \in {"write", "unlock"}
    /\ seen[r].state = stateOpen
    /\ SeenElapsed(r)

\* Handler r's CanAttempt performs the transition to HalfOpen in this step
TransitionStep(r, b) == SawElapsed(r, b) /\ cbPc[r] = "write" /\ cbPc'[r] = "unlock"

\* Every transition a CanAttempt performs takes the breaker from Open to
\* HalfOpen, and the breaker goes from Open to HalfOpen in no other way
OneTransition ==
    \A b \in Backends :
        /\ \A r \in Handlers :
              TransitionStep(r, b) => state[b] = stateOpen /\ state'[b] = stateHalfOpen
        /\ state[b] = stateOpen /\ state'[b] = stateHalfOpen =>
              \E r \in Handlers : TransitionStep(r, b)

\* C17: of the CanAttempt calls running concurrently on an Open breaker
\* whose window has elapsed, exactly one performs the transition to
\* HalfOpen; no two of them read the breaker Open with its window elapsed.
C17_OneTransitionPerPeriod ==
    /\ [][OneTransition]_vars
    /\ [](\A b \in Backends : \A r1, r2 \in Handlers :
             SawElapsed(r1, b) /\ SawElapsed(r2, b) => r1 = r2)

\* One CanAttempt has made the breaker HalfOpen and still holds the mutex;
\* another CanAttempt on the same breaker is waiting for it.
C17_Witness ==
    \E b \in Backends : \E r1, r2 \in Handlers :
        /\ r1 # r2
        /\ SawElapsed(r1, b) /\ cbPc[r1] = "unlock"
        /\ state[b] = stateHalfOpen
        /\ cbOp[r2] = [name |-> "CanAttempt", cb |-> b] /\ cbPc[r2] = "lock"
        /\ mu[b] = r1

----------------------------------------------------------------------------
(* Mutual exclusion of the operations on a breaker *)

\* The fields of breaker b as the operations read them
Fields(b) ==
    [state |-> state[b], failures |-> failures[b], lastFailureTime |-> lastFailureTime[b]]

\* At most one operation is inside the critical section of a breaker
MutualExclusion ==
    \A b \in Backends : \A r1, r2 \in Handlers :
        Inside(r1, b) /\ Inside(r2, b) => r1 = r2

\* What an operation has read is still what the breaker holds when it writes
ReadIsCurrent ==
    \A r \in Handlers : cbPc[r] = "write" => seen[r] = Fields(cbOp[r].cb)

\* Handler r's operation name on breaker b writes in this step
WriteStep(r, name, b) ==
    /\ cbOp[r] = [name |-> name, cb |-> b]
    /\ cbPc[r] = "write"
    /\ cbPc'[r] = "unlock"

\* Every write leaves the fields as the whole operation, run alone on the
\* breaker as it is at that moment, leaves them, and changes no other breaker
WritesAreSequential ==
    \A r \in Handlers : \A b \in Backends :
        /\ WriteStep(r, "CanAttempt", b) =>
              /\ state'[b] = CanAttemptState(b)
              /\ failures'[b] = failures[b]
              /\ lastFailureTime'[b] = lastFailureTime[b]
        /\ WriteStep(r, "RecordSuccess", b) =>
              /\ state'[b] = stateClosed
              /\ failures'[b] = 0
              /\ lastFailureTime'[b] = lastFailureTime[b]
        /\ WriteStep(r, "RecordFailure", b) =>
              /\ state'[b] = RecordFailureState(b)
              /\ failures'[b] = failures[b] + 1
              /\ lastFailureTime'[b] = now
        /\ (\E name \in BreakerOps : WriteStep(r, name, b)) =>
              \A o \in Backends \ {b} : Fields(o)' = Fields(o)

\* The fields of a breaker change in the write of an operation only
OnlyWritesChange ==
    \A b \in Backends :
        Fields(b)' # Fields(b) => \E r \in Handlers, name \in BreakerOps : WriteStep(r, name, b)

\* An operation waiting for a free mutex can take it, whoever holds the
\* mutexes of the other breakers
OwnMutexOnly ==
    \A r \in Handlers :
        cbPc[r] = "lock" /\ mu[cbOp[r].cb] = 0 => ENABLED LockBreaker(r)

\* C18: the three operations on one breaker are mutually exclusive, every
\* write has the effect of the whole operation applied to the breaker's
\* current fields, so that the fields always equal the result of the calls
\* in the order of their writes and each RecordFailure raises the count by
\* exactly one, and an operation waits for the mutex of its own breaker only.
C18_OperationsSerialized ==
    /\ [][WritesAreSequential /\ OnlyWritesChange]_vars
    /\ [](MutualExclusion /\ ReadIsCurrent /\ OwnMutexOnly)

\* Two RecordFailure calls were made on a breaker with no failures before
\* either wrote: the first has written and returned, the second is about to
\* write and has read the count 1 that the first left.
C18_Witness ==
    \E b \in Backends : \E r1, r2 \in Handlers :
        /\ r1 # r2
        /\ cbOp[r2] = [name |-> "RecordFailure", cb |-> b] /\ cbPc[r2] = "write"
        /\ cbPc[r1] = "idle"
        /\ lastCall[b].op = "RecordFailure"
        /\ failures[b] = 1 /\ seen[r2].failures = 1
        /\ state[b] = stateClosed

\* Operations on two different breakers are inside their critical sections
\* at the same time.
C18_WitnessTwoBreakers ==
    \E r1, r2 \in Handlers :
        /\ cbOp[r1].cb # cbOp[r2].cb
        /\ Inside(r1, cbOp[r1].cb)
        /\ Inside(r2, cbOp[r2].cb)

----------------------------------------------------------------------------
(* Count-based failure accounting *)

\* A Closed breaker has counted the failures since the last success, and
\* they are fewer than the threshold
ClosedBelowThreshold ==
    \A b \in Backends :
        state[b] = stateClosed => failures[b] = streak[b] /\ streak[b] < failureThreshold

\* A Closed breaker leaves Closed only for Open, in the step of a
\* RecordFailure that is the failureThreshold-th since the last
\* RecordSuccess; through every other step it stays Closed
OpensOnlyAtThreshold ==
    \A b \in Backends :
        state[b] = stateClosed =>
            /\ state'[b] # stateClosed =>
                  /\ state'[b] = stateOpen
                  /\ lastCall'[b] = [op |-> "RecordFailure", from |-> stateClosed]
                  /\ streak'[b] = streak[b] + 1
                  /\ streak'[b] = failureThreshold
            /\ streak'[b] < failureThreshold => state'[b] = stateClosed

\* C19: a Closed breaker becomes Open only at the RecordFailure that
\* completes failureThreshold consecutive failures with no RecordSuccess in
\* between; while every run of consecutive failures is shorter, it stays
\* Closed.
C19_OnlyConsecutiveFailuresOpen ==
    /\ [][OpensOnlyAtThreshold]_vars
    /\ []ClosedBelowThreshold

\* Three requests went to a breaker whose threshold is 2, the last two
\* answered by a success and then a failure: one failure is counted and the
\* breaker is Closed.
C19_Witness ==
    \E b \in Backends :
        /\ failureThreshold = 2
        /\ counts[b] = 3
        /\ \A r \in Handlers : pc[r] = "idle"
        /\ lastCall[b] = [op |-> "RecordFailure", from |-> stateClosed]
        /\ streak[b] = 1 /\ failures[b] = 1
        /\ lastFailureTime[b] = now
        /\ state[b] = stateClosed

----------------------------------------------------------------------------
(* Probe results *)

\* The liveness call came back with a 2xx status
Is2xx(reply) == reply \in {"status200", "status204"}

\* Backend b's task holds the result of a liveness call it has not yet stored
ResultInHand(b) == probePc[b] \in {"lock", "locked"}

\* Backend b's probe tick completes in this step
TickCompletes(b) == probePc[b] = "locked" /\ probePc'[b] = "select"

\* C20: a probe result is healthy exactly when the liveness call returned a
\* 2xx status (a timeout, a connection failure and any other status give
\* unhealthy), and when a probe tick completes the backend's entry of the
\* health map equals that result.
C20_HealthyIff2xx ==
    /\ [](\A b \in Backends : ResultInHand(b) => (isHealthy[b] <=> Is2xx(lastReply[b])))
    /\ [][\A b \in Backends :
             TickCompletes(b) => (healthStatus'[b] <=> Is2xx(lastReply[b]))]_vars

----------------------------------------------------------------------------
(* The lock of the health map *)

\* A task holds the lock for writing only between its Lock and its Unlock:
\* not while its liveness call is in progress, not at its select, not after
\* it has terminated
HeldOnlyToWrite ==
    \A b \in Backends : healthMutex = b => probePc[b] = "locked"

\* A writer and a reader never hold the lock at the same time
WriterExcludesReaders == healthMutex # -1 => RLockHolders = {}

\* An entry of the health map changes only in a step of the task of that
\* backend, which holds the lock for writing and releases it in that step
OwnEntryOnly ==
    \A b \in Backends :
        healthStatus'[b] # healthStatus[b] =>
            /\ healthMutex = b /\ healthMutex' = -1
            /\ healthStatus'[b] = isHealthy[b]
            /\ \A o \in Backends \ {b} : healthStatus'[o] = healthStatus[o]

\* A terminated task holds no lock and owes no write to the map
TerminatedClean ==
    \A b \in Backends :
        probePc[b] = "done" => healthMutex # b /\ healthStatus[b] \in BOOLEAN

\* C21: no probe task holds the health-map lock while its liveness call is
\* in progress; a writer holds it only to flip the entry of its own backend;
\* a writer and a reader never hold it together; a terminated task holds no
\* lock and leaves no entry half-written.
C21_HealthLockDiscipline ==
    /\ [](HeldOnlyToWrite /\ WriterExcludesReaders /\ TerminatedClean)
    /\ [][OwnEntryOnly]_vars

\* One task holds the lock and is about to flip its entry while the other
\* task's liveness call is in progress; a handler has read an entry before.
C21_Witness ==
    \E b, o \in Backends :
        /\ b # o
        /\ healthMutex = b
        /\ isHealthy[b] # healthStatus[b]
        /\ probePc[o] = "probing"
        /\ \E r \in Handlers : isHealthyCall[r].pc = "idle" /\ isHealthyCall[r].result

----------------------------------------------------------------------------
(* Shutdown of the probe tasks *)

\* Backend b has a task, and its stop channel has been closed
Stopped(b) == b \in Backends /\ stopClosed[b]

Terminated(b) == b \in Backends /\ probePc[b] = "done"

\* After the stop signal no tick arrives any more, so the only liveness call
\* a task can still issue is the one for the tick that was pending; a
\* liveness call is issued only by taking a tick out of ticker.C; and a
\* terminated task stays terminated.
AtMostThePendingProbe ==
    \A b \in Backends :
        /\ stopClosed[b] /\ tickPending'[b] => tickPending[b]
        /\ ProbeIssued(b) => tickPending[b] /\ ~tickPending'[b]
        /\ probePc[b] = "done" => probePc'[b] = "done"

\* C22: after Stop has closed a task's stop channel, the task eventually
\* terminates, having performed at most the probe that was pending or in
\* flight; no task keeps probing.
C22_StopTerminates ==
    /\ \A b \in 0 .. (MaxBackends - 1) : Stopped(b) ~> Terminated(b)
    /\ [][AtMostThePendingProbe]_vars

\* A task whose stop channel has been closed has its liveness call in
\* flight, at its timeout: the call was issued for the tick of one time unit
\* ago.
C22_Witness ==
    \E b \in Backends :
        /\ stopClosed[b]
        /\ probePc[b] = "probing"
        /\ probeTime[b].call = ProbeTimeout
        /\ probeTime[b].tick = ProbeTimeout

----------------------------------------------------------------------------
(* Circuit transition events *)

\* The event of a transition of a breaker, "none" when the state stays
EventOf(from, to) ==
    CASE from = to -> "none"
      [] to = stateOpen -> "OPENED"
      [] to = stateHalfOpen -> "HALF-OPEN"
      [] OTHER -> "CLOSED"

\* C23: an operation emits a circuit transition event exactly when it
\* changes the breaker's state, along one of the four edges, and the event
\* is the one of that edge: no event from an operation that leaves the
\* state as it was, no change of state without its event.
C23_EventPerTransition ==
    \A b \in Backends :
        lastCall[b].op # "none" =>
            /\ logged[b] = EventOf(lastCall[b].from, state[b])
            /\ logged[b] # "none" => <<lastCall[b].from, state[b]>> \in Edges

----------------------------------------------------------------------------
(* What a selectBackend call changes *)

\* Handler r's selectBackend call takes a step
SelectBackendStep(r) ==
    /\ pc[r] # "forward"
    /\ <<pc[r], i[r]>> # <<pc'[r], i'[r]>>

\* The step returns backend b from the scan, after its CanAttempt
ReturnsFromScan(r, b) ==
    /\ pc[r] = "circuit" /\ b = Candidate(next[r], i[r])
    /\ pc'[r] = "forward" /\ ret'[r] = b /\ ~fallback'[r]

\* A step of a selectBackend call writes neither the health map nor the
\* failure count or failure time of any breaker, and changes the state of a
\* breaker only from Open to HalfOpen, of the backend it returns in that
\* step, which it has read healthy
SelectBackendFrame ==
    \A r \in Handlers :
        SelectBackendStep(r) =>
            /\ healthStatus' = healthStatus
            /\ failures' = failures
            /\ lastFailureTime' = lastFailureTime
            /\ \A b \in Backends :
                  state'[b] # state[b] =>
                      /\ state[b] = stateOpen /\ state'[b] = stateHalfOpen
                      /\ ReturnsFromScan(r, b)
                      /\ b \notin unh[r]

\* C24: one selectBackend call changes, besides the cursor, the state of at
\* most one breaker: the one of the backend it returns, from Open to
\* HalfOpen, that backend having been read healthy; it changes no failure
\* count, no failure time and no entry of the health map, and leaves the
\* breakers of unhealthy and refused backends as they were.
C24_SelectBackendFrame == [][SelectBackendFrame]_vars

\* A call passed over a backend that is unhealthy or whose breaker is Open
\* and returned the next one, whose breaker was Open with its window elapsed
\* and is now HalfOpen.
C24_Witness ==
    \E r \in Handlers :
        /\ Returned(r) /\ ~fallback[r]
        /\ i[r] > 0
        /\ lastCall[ret[r]] = [op |-> "CanAttempt", from |-> stateOpen]
        /\ state[ret[r]] = stateHalfOpen
        /\ \E b \in Backends : b # ret[r] /\ (~healthStatus[b] \/ state[b] = stateOpen)

----------------------------------------------------------------------------
(* Invariants of a breaker's fields *)

\* C25: with failureThreshold >= 1, a Closed breaker has a failure count in
\* 0 .. failureThreshold - 1, and an Open or HalfOpen breaker has recorded
\* at least one failure, so that its lastFailureTime is set (not the zero
\* time, and not in the future) when CanAttempt compares against it.
C25_FieldInvariants ==
    failureThreshold >= 1 =>
        \A b \in Backends :
            /\ state[b] = stateClosed => 0 <= failures[b] /\ failures[b] < failureThreshold
            /\ state[b] \in {stateOpen, stateHalfOpen} =>
                  /\ failures[b] >= 1
                  /\ lastFailureTime[b] # ZeroTime
                  /\ 0 <= lastFailureTime[b] /\ lastFailureTime[b] <= now

\* A breaker opened at the threshold failed again in HalfOpen: it is Open with a count above the threshold, failure time set.
C25_Witness ==
    \E b \in Backends :
        /\ state[b] = stateOpen
        /\ failures[b] > failureThreshold
        /\ lastCall[b] = [op |-> "RecordFailure", from |-> stateHalfOpen]
        /\ lastFailureTime[b] = now

----------------------------------------------------------------------------
(* The scan's arithmetic in the cursor's width *)

\* The indices a scan examines when it starts from cursor value n
ScanIndices(n) == {Candidate(n, k) : k \in Offsets}

\* C26: for every cursor value a call obtains, also near its maximum and
\* across the wrap-around, the candidates of the scan are backendCount distinct indices
\* covering every backend, and the scan of the next cursor value starts at
\* the next index in cyclic order.
C26_ScanCoversAll ==
    \A r \in Handlers :
        pc[r] # "idle" =>
            /\ ScanIndices(next[r]) = Backends
            /\ Candidate((next[r] + 1) % CounterMod, 0) = Successor(Candidate(next[r], 0))

----------------------------------------------------------------------------
(* Recovery of an Open breaker *)

\* RecordSuccess or RecordFailure was the latest operation on breaker b
OutcomeRecorded(b) == lastCall[b].op \in {"RecordSuccess", "RecordFailure"}

\* Calls still to arrive
CallsToCome == numRequests - CallsStarted

\* Backend b is healthy, its breaker is Open and has been for longer than
\* the timeout, no outcome has been recorded on it since, and enough calls
\* are still to come for the cursor to come round to b, wrap-around included
RecoveryDue(b) ==
    /\ b \in Backends
    /\ healthStatus[b]
    /\ state[b] = stateOpen
    /\ now - lastFailureTime[b] > timeout
    /\ ~OutcomeRecorded(b)
    /\ CallsToCome >= 2 * backendCount - 1

\* selectBackend has returned b from the scan, its breaker now HalfOpen
Readmitted(b) ==
    /\ b \in Backends
    /\ state[b] = stateHalfOpen
    /\ \E r \in Handlers : Returned(r) /\ ret[r] = b /\ ~fallback[r]

\* A success recorded on a HalfOpen breaker closes it
RecoveryCloses ==
    \A r \in Handlers : \A b \in Backends :
        OutcomeStep(r, b) /\ state[b] = stateHalfOpen /\ lastCall'[b].op = "RecordSuccess" =>
            state'[b] = stateClosed /\ failures'[b] = 0

TypeOK ==
    /\ backendCount \in 1 .. MaxBackends
    /\ counter \in 0 .. (CounterMod - 1)
    /\ healthStatus \in [Backends -> BOOLEAN]
    /\ state \in [Backends -> CircuitState]
    /\ pc \in [Handlers -> {"idle", "health", "circuit", "forward"}]

====
